---- MODULE Spec2Model ----
(***************************************************************************)
(* Offline-first cloud reconciliation of the QuickBiza POS backend:        *)
(* services/syncService.js (outbox, real-time push, scheduled sweep) and   *)
(* database/cloud.js (remote connection).  One event loop: every action is *)
(* the code that runs between two suspension points (await).               *)
(***************************************************************************)
EXTENDS Integers, Sequences, FiniteSets, TLC

\* ---------------------------------------------------------------- bounds
MaxId == 1          \* record ids 1..MaxId in every modelled table
MaxVer == 1         \* local writes per row (row versions 0..MaxVer)
MaxClock == 1       \* values of datetime('now'): 0..MaxClock
MaxTicks == 2       \* runSync invocations that can be in flight together
MaxPushes == 1      \* real-time syncRecord calls in flight together
MaxEnq == 2         \* AUTOINCREMENT ids handed out by sync_queue
MaxBacklog == 51    \* outbox entries accumulated while offline (SpecBacklog)

\* ------------------------------------------------------ program constants
RetryCeiling == 5   \* retry_count < 5 filter of processQueue
BatchSize == 50     \* LIMIT 50 of processQueue

NULL == "null"
NullTime == 0 - 1
CompanyId == "T1"
MongoMsg == "Cannot reach MongoDB"
TenantMsg == "getCompanyId failed"
LedgerMsg == "sync_queue read failed"

Ids == 1..MaxId
TickIds == 1..MaxTicks
PushIds == 1..MaxPushes

\* TRACKABLE_TABLES: the tables that carry sync_status / updated_at
TRACKABLE_TABLES == {"sales", "products", "customers", "orders", "expenses", "purchases"}

\* Tables whose rows the model holds; every other table is empty.
DataTables == {"products", "customers"}
\* Table names handed to enqueueSync / syncRecord by callers.
CallTables == {"products", "customers", "inventory", "sales"}
\* Tables whose remote documents embed child rows (sale_items and payments,
\* purchase_items).
ChildTables == {"sales", "purchases"}
\* Collections of the remote store that receive documents.
CloudTables == DataTables \cup {"sales"}

\* The nine per-entity sync functions of the fan-out, by the table they read.
Groups == {"sales", "products", "customers", "orders", "inventory",
           "purchases", "expenses", "users", "app_settings"}

VARIABLES
    stable,       \* the outages are over: network, remote store and disk stay up
    ledgerOk,     \* the embedded local store answers (db.prepare(..).run/get/all)
    isConnected,  \* cloud.js module flag: mongoose.connect has succeeded once
    now,          \* datetime('now')
    syncState,    \* the exported syncState object
    rows,         \* local ledger rows: [table \X Ids -> [ver, child, sync_status]]
    sync_queue,   \* the outbox table: a set of entries
    nextId,       \* next AUTOINCREMENT id of sync_queue
    remote,       \* documents of the remote store
    calls,        \* Model.bulkWrite calls in flight, by caller
    tick,         \* the runSync invocations
    push,         \* the real-time syncRecord invocations
    lastPush,     \* history: version carried by the latest applied upsert per key
    lastInsert,   \* history: created_at of the latest INSERT per (table, id)
    fails,        \* history: failed drain attempts of the pair's entry since its INSERT
    last          \* history: what the step that led here did

vars == <<stable, ledgerOk, isConnected, now, syncState, rows,
          sync_queue, nextId, remote, calls, tick, push, lastPush, lastInsert,
          fails, last>>

Pairs == CallTables \X Ids

env == <<stable, ledgerOk, isConnected, now>>

\* ------------------------------------------------------------ connectivity
\* isNetworkAvailable(): what the DNS lookup answers when it answers; the
\* network comes and goes between any two steps.
isNetworkAvailable == IF stable THEN {TRUE} ELSE BOOLEAN

\* isMongoConnected(): readyState is 1 only on a connection the driver has
\* opened; it drops and comes back between any two steps.
isMongoConnected ==
    IF ~isConnected THEN {FALSE} ELSE IF stable THEN {TRUE} ELSE BOOLEAN

\* mongoose.connect(MONGO_URI): does it succeed?
ConnectOutcomes == IF stable THEN {TRUE} ELSE BOOLEAN

\* ------------------------------------------------------------ local ledger
Entry(i, tb, id, at) ==
    [id |-> i, table_name |-> tb, record_id |-> id, operation |-> "upsert",
     retry_count |-> 0, created_at |-> at, last_attempt |-> NullTime]

EntriesFor(q, tb, id) == {e \in q : e.table_name = tb /\ e.record_id = id}

\* DELETE FROM sync_queue WHERE table_name = ? AND record_id = ?
DeleteEntries(q, tb, id) == q \ EntriesFor(q, tb, id)

\* UPDATE <table> SET sync_status = ? WHERE id = ?
SetSyncStatus(rs, tb, id, st) ==
    IF <<tb, id>> \in DOMAIN rs
    THEN [rs EXCEPT ![<<tb, id>>].sync_status = st]
    ELSE rs

\* (variant: INSERT without the DELETE before it)
EnqueueQueue_append(q, tb, id) == q \cup {Entry(nextId, tb, id, now)}

\* enqueueSync: the outbox after DELETE + INSERT
EnqueueQueue(q, tb, id) ==
    DeleteEntries(q, tb, id) \cup {Entry(nextId, tb, id, now)}

\* enqueueSync: the rows after the best-effort UPDATE
EnqueueRows(rs, tb, id) ==
    IF tb \in TRACKABLE_TABLES THEN SetSyncStatus(rs, tb, id, "pending") ELSE rs

\* markSynced: DELETE by (table, id), then UPDATE sync_status = 'synced'
MarkSyncedQueue(q, tb, id) == DeleteEntries(q, tb, id)

MarkSyncedRows(rs, tb, id) ==
    IF tb \in TRACKABLE_TABLES THEN SetSyncStatus(rs, tb, id, "synced") ELSE rs

\* ----------------------------------------------------------- remote store
\* (variant: a schema without its unique index)
HasUniqueIndex_none(coll) == FALSE

\* Every Cloud* schema declares index({local_id: 1, company_id: 1}, {unique: true}).
HasUniqueIndex(coll) == TRUE

Key(d) == <<d.coll, d.local_id, d.company_id>>
Keys == {<<tb, id, CompanyId>> : tb \in CloudTables, id \in Ids}

\* One row mapped to the document pushed for it (the business fields of a row
\* are determined by its version).
\* (variant: the child rows as read before an earlier suspension)
MapRow_staleChild(tb, id, r) == [local_id |-> id, ver |-> r.ver, child |-> 0]

MapRow(tb, id, r) ==
    [local_id |-> id, ver |-> r.ver,
     child |-> IF tb \in ChildTables THEN r.child ELSE 0]

\* upsertMany: the updateOne operations built from docs
UpsertFilter(doc, company_id) == [local_id |-> doc.local_id, company_id |-> company_id]

UpsertOps(coll, docs, company_id) ==
    {[coll |-> coll, filter |-> UpsertFilter(d, company_id),
      set |-> [local_id |-> d.local_id, company_id |-> company_id,
               ver |-> d.ver, child |-> d.child]]
       : d \in docs}

Matches(store, op) ==
    {d \in store : /\ d.coll = op.coll
                   /\ \A k \in DOMAIN op.filter : d[k] = op.filter[k]}

SameKey(store, op) ==
    {d \in store : /\ d.coll = op.coll
                   /\ d.local_id = op.set.local_id
                   /\ d.company_id = op.set.company_id}

NewDoc(store, op) ==
    [coll |-> op.coll, local_id |-> op.set.local_id, company_id |-> op.set.company_id,
     ver |-> op.set.ver, child |-> op.set.child, n |-> Cardinality(store) + 1]

\* $set on one matched document
UpdateDoc(store, d, op) ==
    (store \ {d}) \cup {[d EXCEPT !.local_id = op.set.local_id,
                                  !.company_id = op.set.company_id,
                                  !.ver = op.set.ver,
                                  !.child = op.set.child]}

FirstOf(S) == CHOOSE d \in S : \A e \in S : d.n <= e.n

NoCall == [active |-> FALSE, todo |-> {}, ins |-> {}, n |-> 0]
NewCall(ops) == [active |-> TRUE, todo |-> ops, ins |-> {}, n |-> 0]

Callers ==
    {<<"sweep", t, g>> : t \in TickIds, g \in CloudTables}
        \cup {<<"drain", t, "-">> : t \in TickIds}
        \cup {<<"rt", p, "-">> : p \in PushIds}

\* ------------------------------------------------------------------- Init
NoEntry == Entry(0, "-", 0, NullTime)
Pending == 0 - 1
Rejected == 0 - 2
NoResults == [g \in Groups |-> 0]

IdleTick ==
    [pc |-> "idle", firedSyncing |-> FALSE, reconnects |-> 0,
     results |-> NoResults, pending |-> <<>>, cur |-> NoEntry]

IdlePush == [pc |-> "idle", table |-> "-", id |-> 0]

\* The record of one step: which invocation ran (t: a tick, p: a push), what
\* its probes answered, how a tick ended, which exception was thrown inside
\* runSync's try, whether the fan-out was launched, whether it settled (and
\* with which results), which drain attempt finished and how, how a real-time
\* push ended, what the remote store wrote, and for an enqueueSync call which
\* statement failed ("ok": none), for which pair, and whether it threw;
\* drain: processQueue was called in this step.
NoEvent ==
    [t |-> 0, net |-> FALSE, mongo |-> FALSE,
     end |-> "none", raised |-> NULL, launched |-> FALSE, settled |-> FALSE,
     results |-> NoResults, att |-> "none", entry |-> NoEntry,
     p |-> 0, pushEnd |-> "none", wrote |-> "none",
     enq |-> "none", enqPair |-> <<"-", 0>>, escaped |-> FALSE,
     drain |-> FALSE]

\* The process has started: connectCloudDB() of server.js has connected or
\* failed, the tables in T hold rows 1..MaxId, the outbox is empty.
InitWith(T) ==
    /\ stable = FALSE
    /\ ledgerOk = TRUE
    /\ isConnected \in BOOLEAN
    /\ now = 0
    /\ syncState = [status |-> "idle", lastSyncAt |-> NullTime,
                    lastSyncError |-> NULL, recordsSynced |-> 0,
                    company_id |-> NULL]
    /\ rows = [p \in T \X Ids |-> [ver |-> 0, child |-> 0, sync_status |-> "pending"]]
    /\ sync_queue = {}
    /\ nextId = 1
    /\ remote = {}
    /\ calls = [c \in Callers |-> NoCall]
    /\ tick = [t \in TickIds |-> IdleTick]
    /\ push = [p \in PushIds |-> IdlePush]
    /\ lastPush = [k \in Keys |-> NullTime]
    /\ lastInsert = [p \in Pairs |-> NullTime]
    /\ fails = [p \in Pairs |-> 0]
    /\ last = NoEvent

Init == InitWith(DataTables)

\* ------------------------------------------------------------ environment
\* The embedded store starts or stops answering (locked file, full disk).
LedgerChange ==
    /\ ~stable
    /\ ledgerOk' = ~ledgerOk
    /\ last' = NoEvent
    /\ UNCHANGED <<stable, isConnected, now, syncState, rows,
                   sync_queue, nextId, remote, calls, tick, push, lastPush,
                   lastInsert, fails>>

ClockAdvance ==
    /\ now < MaxClock
    /\ now' = now + 1
    /\ last' = NoEvent
    /\ UNCHANGED <<stable, ledgerOk, isConnected, syncState, rows,
                   sync_queue, nextId, remote, calls, tick, push, lastPush,
                   lastInsert, fails>>

\* From here on the network and the remote store stay reachable, upserts
\* succeed, and the local disk answers.
Stabilize ==
    /\ ~stable
    /\ ledgerOk
    /\ stable' = TRUE
    /\ last' = NoEvent
    /\ UNCHANGED <<ledgerOk, isConnected, now, syncState, rows,
                   sync_queue, nextId, remote, calls, tick, push, lastPush,
                   lastInsert, fails>>

\* A committed local write of a business row by a route handler.
WriteRow(tb, id) ==
    /\ ledgerOk
    /\ <<tb, id>> \in DOMAIN rows
    /\ rows[<<tb, id>>].ver < MaxVer
    /\ rows' = [rows EXCEPT ![<<tb, id>>].ver = @ + 1]
    /\ last' = NoEvent
    /\ UNCHANGED <<env, syncState, sync_queue, nextId, remote, calls, tick,
                   push, lastPush, lastInsert, fails>>

\* A committed local write of the child rows of a business row (the items
\* and payments of a sale, the items of a purchase).
WriteChild(tb, id) ==
    /\ ledgerOk
    /\ tb \in ChildTables
    /\ <<tb, id>> \in DOMAIN rows
    /\ rows[<<tb, id>>].child < MaxVer
    /\ rows' = [rows EXCEPT ![<<tb, id>>].child = @ + 1]
    /\ last' = NoEvent
    /\ UNCHANGED <<env, syncState, sync_queue, nextId, remote, calls, tick,
                   push, lastPush, lastInsert, fails>>

\* ------------------------------------------------------------ enqueueSync
\* seedDatabase fills products before the metaTables migration runs.
SeededTables == {"products"}

\* ALTER TABLE t ADD COLUMN updated_at TEXT DEFAULT (datetime('now')) is
\* refused for a table that holds rows (non-constant default) and the error is
\* swallowed: the column exists only on tables that were empty at that point.
HasUpdatedAt(tb) == tb \in TRACKABLE_TABLES \ SeededTables

\* The statement of enqueueSync that throws in one call: "ok" (none), the
\* DELETE, the INSERT, or the UPDATE of the row (run for trackable tables
\* only; it names updated_at, so it always throws where the column is
\* missing).  A store that does not answer fails the first statement.
EnqueueFaults(tb) ==
    IF ~ledgerOk THEN {"delete"}
    ELSE {"insert"}
         \cup (IF tb \in TRACKABLE_TABLES THEN {"update"} ELSE {})
         \cup (IF tb \in TRACKABLE_TABLES /\ ~HasUpdatedAt(tb) THEN {} ELSE {"ok"})

\* The body of the outer try: every statement commits on its own, a throwing
\* DELETE or INSERT leaves the try, a throwing UPDATE is caught by the inner
\* catch.
EnqueueSyncTry(q, rs, tb, id, fault) ==
    CASE fault = "delete" -> [q |-> q, rs |-> rs, inserted |-> FALSE, thrown |-> TRUE]
      [] fault = "insert" -> [q |-> DeleteEntries(q, tb, id), rs |-> rs,
                              inserted |-> FALSE, thrown |-> TRUE]
      [] fault = "update" -> [q |-> EnqueueQueue(q, tb, id), rs |-> rs,
                              inserted |-> TRUE, thrown |-> FALSE]
      [] OTHER -> [q |-> EnqueueQueue(q, tb, id), rs |-> EnqueueRows(rs, tb, id),
                   inserted |-> TRUE, thrown |-> FALSE]

\* (variant: an outer catch that throws again)
EnqueueSyncCatch_rethrow(thrown) == thrown

\* catch (err) { console.warn(..) }: does the call throw to its caller?
EnqueueSyncCatch(thrown) == FALSE

enqueueSync(tb, id, fault) ==
    /\ nextId <= MaxEnq
    /\ fault \in EnqueueFaults(tb)
    /\ LET r == EnqueueSyncTry(sync_queue, rows, tb, id, fault)
       IN  /\ sync_queue' = r.q
           /\ rows' = r.rs
           /\ IF r.inserted
              THEN /\ nextId' = nextId + 1
                   /\ lastInsert' = [lastInsert EXCEPT ![<<tb, id>>] = now]
                   /\ fails' = [fails EXCEPT ![<<tb, id>>] = 0]
              ELSE UNCHANGED <<nextId, lastInsert, fails>>
           /\ last' = [NoEvent EXCEPT !.enq = fault, !.enqPair = <<tb, id>>,
                                      !.escaped = EnqueueSyncCatch(r.thrown)]
    /\ UNCHANGED <<env, syncState, remote, calls, tick, push, lastPush>>

EnqueueStatements == {"ok", "delete", "insert", "update"}

\* --------------------------------------------------- tenant / sync state
Throw == "throw"

\* syncState.company_id || (syncState.company_id = getCompanyId()):
\* the memoized id, or what getCompanyId() can do (return an id, or throw
\* from the file system calls).
getCompanyId(ss) ==
    IF ss.company_id # NULL THEN {ss.company_id}
    ELSE IF stable THEN {CompanyId}
    ELSE {CompanyId, Throw}

\* What one running invocation may change between two suspension points.
Bundle(t) ==
    [t |-> t, tk |-> tick[t], ss |-> syncState, q |-> sync_queue, rs |-> rows,
     cs |-> calls, f |-> fails, ev |-> [NoEvent EXCEPT !.t = t]]

\* The same, in a step that probed the network and read the connection state.
Probed(t, hasNetwork, mongo) ==
    [Bundle(t) EXCEPT !.ev.net = hasNetwork, !.ev.mongo = mongo]

Commit(b) ==
    /\ tick' = [tick EXCEPT ![b.t] = b.tk]
    /\ syncState' = b.ss
    /\ sync_queue' = b.q
    /\ rows' = b.rs
    /\ calls' = b.cs
    /\ fails' = b.f
    /\ last' = b.ev

\* runSync returns (or its promise settles): the slot is free again.
Finish(b, how) == [b EXCEPT !.tk = IdleTick, !.ev.end = how]

\* (variant: a catch that logs and leaves syncState alone)
RunSyncCatch_logOnly(b, msg) == Finish(b, "caught")

\* catch (error) of runSync
RunSyncCatch(b, msg) ==
    Finish([b EXCEPT !.ss = [b.ss EXCEPT !.status = "error", !.lastSyncError = msg]],
           "caught")

\* An exception with message msg is thrown inside the try of runSync.
Raise(b, msg) == RunSyncCatch([b EXCEPT !.ev.raised = msg], msg)

\* if (!hasNetwork) { syncState.status = 'offline'; return; }
Offline(b) == Finish([b EXCEPT !.ss.status = "offline"], "offline")

\* (variant: layer 2 reported like layer 1)
MongoUnreachable_offline(b) == Finish([b EXCEPT !.ss.status = "offline"], "mongo_error")

\* (variant: 'error' as soon as layer 2 is found down)
Layer2Down_noRecheck(b) ==
    Finish([b EXCEPT !.ss.status = "error", !.ss.lastSyncError = MongoMsg],
           "mongo_error")

\* if (!isMongoConnected()) { try { await connectCloudDB() } catch (_) { } ..:
\* the one call of connectCloudDB, which returns at once when its flag is
\* set (the wait starts), else awaits mongoose.connect.
Layer2Down(b) ==
    [b EXCEPT !.tk.pc = IF isConnected THEN "wait" ELSE "reconnect",
              !.tk.reconnects = @ + 1]

\* The recheck of layer 2 failed: status 'error' with its reason, return.
MongoUnreachable(b) ==
    Finish([b EXCEPT !.ss.status = "error", !.ss.lastSyncError = MongoMsg],
           "mongo_error")

\* ------------------------------------------------------------ processQueue
\* SELECT * FROM sync_queue WHERE retry_count < 5 ORDER BY created_at LIMIT 50:
\* every order the ties allow.
Candidates(q) == {e \in q : e.retry_count < RetryCeiling}

Min(a, b) == IF a < b THEN a ELSE b

\* (variant: ORDER BY created_at DESC)
RECURSIVE OldestFirst_newestFirst(_, _)
OldestFirst_newestFirst(C, k) ==
    IF k = 0 \/ C = {} THEN {<<>>}
    ELSE UNION {{<<e>> \o s : s \in OldestFirst_newestFirst(C \ {e}, k - 1)} :
                  e \in {x \in C : \A y \in C : x.created_at >= y.created_at}}

\* ORDER BY created_at LIMIT k over the set C: the oldest entry first, then
\* the same over the rest.
RECURSIVE OldestFirst(_, _)
OldestFirst(C, k) ==
    IF k = 0 \/ C = {} THEN {<<>>}
    ELSE UNION {{<<e>> \o s : s \in OldestFirst(C \ {e}, k - 1)} :
                  e \in {x \in C : \A y \in C : x.created_at <= y.created_at}}

SelectPending(q) == OldestFirst(Candidates(q), BatchSize)

\* for (const entry of pending): the next entry's syncRecord is called and
\* suspends at its network probe; after the last one runSync returns.
DrainNext(b) ==
    IF b.tk.pending = <<>>
    THEN Finish(b, "completed")
    ELSE [b EXCEPT !.tk = [b.tk EXCEPT !.pc = "dprobe",
                                       !.cur = Head(b.tk.pending),
                                       !.pending = Tail(b.tk.pending)]]

\* History: the attempt on entry e ended as att.
Attempted(b, e, att) ==
    LET pair == <<e.table_name, e.record_id>>
        live == \E x \in b.q : x.id = e.id
    IN  [b EXCEPT !.ev.att = att, !.ev.entry = e,
                  !.f[pair] = IF ~live THEN @
                              ELSE IF att \in {"failed", "skipped", "threw"}
                              THEN Min(@ + 1, RetryCeiling)
                              ELSE IF att = "pushed" THEN 0 ELSE @]

\* await syncRecord(..) returned: markSynced (its failures are swallowed).
Handled(b, att) ==
    LET e == b.tk.cur
        b1 == Attempted(b, e, att)
    IN  IF ledgerOk
        THEN DrainNext([b1 EXCEPT
                 !.q = MarkSyncedQueue(b.q, e.table_name, e.record_id),
                 !.rs = MarkSyncedRows(b.rs, e.table_name, e.record_id)])
        ELSE DrainNext(b1)

\* await syncRecord(..) threw: UPDATE .. retry_count + 1 .. WHERE id = ?
\* (a failure of that UPDATE leaves processQueue and is caught by runSync).
Retried(b) ==
    LET e == b.tk.cur
        b1 == Attempted(b, e, "threw")
    IN  IF ledgerOk
        THEN DrainNext([b1 EXCEPT !.q =
                 {IF x.id = e.id
                  THEN [x EXCEPT !.retry_count = @ + 1, !.last_attempt = now]
                  ELSE x : x \in b.q}])
        ELSE Raise(b1, LedgerMsg)

processQueue(b) ==
    LET b0 == [b EXCEPT !.ev.drain = TRUE]
    IN  IF ~ledgerOk
        THEN {Raise(b0, LedgerMsg)}
        ELSE {DrainNext([b0 EXCEPT !.tk.pending = s]) : s \in SelectPending(b.q)}

\* ------------------------------------------------------------ the fan-out
RECURSIVE SumFulfilled(_, _)
SumFulfilled(results, G) ==
    IF G = {} THEN 0
    ELSE LET g == CHOOSE x \in G : TRUE
         IN  (IF results[g] >= 0 THEN results[g] ELSE 0)
                 + SumFulfilled(results, G \ {g})

\* (variant: the state update without lastSyncError = null)
AfterFanout_keepsError(b) ==
    processQueue([b EXCEPT
        !.ss = [b.ss EXCEPT
                  !.status = "synced",
                  !.lastSyncAt = now,
                  !.recordsSynced = SumFulfilled(b.tk.results, Groups)],
        !.ev.settled = TRUE,
        !.ev.results = b.tk.results])

\* After Promise.allSettled: the total, the state update, then the drain.
AfterFanout(b) ==
    processQueue([b EXCEPT
        !.ss = [b.ss EXCEPT
                  !.status = "synced",
                  !.lastSyncAt = now,
                  !.recordsSynced = SumFulfilled(b.tk.results, Groups),
                  !.lastSyncError = NULL],
        !.ev.settled = TRUE,
        !.ev.results = b.tk.results])

\* (variant: Promise.all, which rejects at the first rejection)
GroupSettled_failFast(b, g, res) ==
    LET b1 == [b EXCEPT !.tk.results[g] = res]
    IN  IF res = Rejected THEN {Raise(b1, "rejected")}
        ELSE IF \E h \in Groups : b1.tk.results[h] = Pending THEN {b1}
        ELSE AfterFanout(b1)

\* (variant: a fulfilled sync function marks the rows of its table 'synced')
GroupSettled_marksRows(b, g, res) ==
    LET b1 == [b EXCEPT
                 !.tk.results[g] = res,
                 !.rs = [pr \in DOMAIN b.rs |->
                           IF pr[1] = g /\ res >= 0
                           THEN [b.rs[pr] EXCEPT !.sync_status = "synced"]
                           ELSE b.rs[pr]]]
    IN  IF \E h \in Groups : b1.tk.results[h] = Pending
        THEN {b1}
        ELSE AfterFanout(b1)

\* One per-entity sync function settled with res (a count, or Rejected).
GroupSettled(b, g, res) ==
    LET b1 == [b EXCEPT !.tk.results[g] = res]
    IN  IF \E h \in Groups : b1.tk.results[h] = Pending
        THEN {b1}
        ELSE AfterFanout(b1)

\* SELECT * FROM <table> and the row mapping of a per-entity sync function.
GroupDocs(g, rs) ==
    {MapRow(g, id, rs[<<g, id>>]) : id \in {i \in Ids : <<g, i>> \in DOMAIN rs}}

\* The nine calls inside Promise.allSettled([...]), each run up to its first
\* await: a failing SELECT rejects (syncSettings returns 0 instead), an empty
\* table returns 0, anything else waits for its bulkWrite.
LaunchResult(g, rs) ==
    IF ~ledgerOk THEN (IF g = "app_settings" THEN 0 ELSE Rejected)
    ELSE IF GroupDocs(g, rs) = {} THEN 0
    ELSE Pending

\* (variant: a guard that never lets a sweep start)
Reentrant_always(ss) == TRUE

\* if (syncState.status === 'syncing') return;
Reentrant(ss) == ss.status = "syncing"

\* (variant: a guard that goes on to the drain)
AtGuard_drains(b) == processQueue(b)

\* The guard holds: plain return.
AtGuard(b) == {Finish(b, "guard")}

\* (variant: resolving the tenant also reports 'synced')
Memoize_touchesStatus(ss, cid) == [ss EXCEPT !.company_id = cid, !.status = "synced"]

\* (variant: the resolved id is used but not kept)
Memoize_forgets(ss, cid) == ss

\* syncState.company_id || (syncState.company_id = cid)
Memoize(ss, cid) == [ss EXCEPT !.company_id = cid]

\* runSync from the reentrancy guard to the first suspension after it.
EnterSweep(b) ==
    IF Reentrant(b.ss)
    THEN AtGuard(b)
    ELSE LET ss1 == [b.ss EXCEPT !.status = "syncing"]
             launched(cid) ==
                 LET res == [g \in Groups |-> LaunchResult(g, b.rs)]
                     b1 == [b EXCEPT
                         !.ss = Memoize(ss1, cid),
                         !.tk = [b.tk EXCEPT !.pc = "fanout", !.results = res,
                                             !.firedSyncing = FALSE,
                                             !.reconnects = 0],
                         !.cs = [c \in Callers |->
                                   IF c[1] = "sweep" /\ c[2] = b.t /\ res[c[3]] = Pending
                                   THEN NewCall(UpsertOps(c[3], GroupDocs(c[3], b.rs), cid))
                                   ELSE b.cs[c]],
                         !.ev.launched = TRUE]
                 IN  IF \E g \in Groups : res[g] = Pending
                     THEN {b1}
                     ELSE AfterFanout(b1)
         IN  UNION {IF cid = Throw
                    THEN {Raise([b EXCEPT !.ss = ss1], TenantMsg)}
                    ELSE launched(cid) : cid \in getCompanyId(ss1)}

\* -------------------------------------------------------------- syncRecord
SingleRowTables == {"products", "sales", "customers", "orders", "expenses"}

\* syncRecord after its network probe resolved, up to its next suspension:
\* "skipped" (no connectivity: plain return), "rejected" (getCompanyId threw,
\* outside the try), "failed" (an error swallowed by the catch), "nopush"
\* (nothing to push), or "call" (an upsert is now in flight).
SyncRecordBody(ss, rs, tb, id, hasNetwork, mongo) ==
    IF ~hasNetwork \/ ~mongo
    THEN {[kind |-> "skipped", ss |-> ss, ops |-> {}]}
    ELSE UNION {
        IF cid = Throw
        THEN {[kind |-> "rejected", ss |-> ss, ops |-> {}]}
        ELSE LET ss1 == Memoize(ss, cid)
                 docs == IF tb \in SingleRowTables
                         THEN (IF <<tb, id>> \in DOMAIN rs
                               THEN {MapRow(tb, id, rs[<<tb, id>>])} ELSE {})
                         ELSE IF tb = "purchases" THEN GroupDocs("purchases", rs)
                         ELSE {}
             IN  IF tb \notin SingleRowTables \cup {"purchases"}
                 THEN {[kind |-> "nopush", ss |-> ss1, ops |-> {}]}
                 ELSE IF ~ledgerOk
                 THEN {[kind |-> "failed", ss |-> ss1, ops |-> {}]}
                 ELSE IF docs = {}
                 THEN {[kind |-> "nopush", ss |-> ss1, ops |-> {}]}
                 ELSE {[kind |-> "call", ss |-> ss1, ops |-> UpsertOps(tb, docs, cid)]}
        : cid \in getCompanyId(ss)}

\* ------------------------------------------------------ the scheduled tick
\* setTimeout / setInterval fires runSync, which suspends at the DNS probe.
\* (Free slots are interchangeable: the lowest one is taken.)
TickFire(t) ==
    /\ tick[t].pc = "idle"
    /\ \A u \in TickIds : u < t => tick[u].pc # "idle"
    /\ tick' = [tick EXCEPT ![t] =
                  [IdleTick EXCEPT !.pc = "probe",
                                   !.firedSyncing = (syncState.status = "syncing")]]
    /\ last' = NoEvent
    /\ UNCHANGED <<env, syncState, rows, sync_queue, nextId, remote, calls,
                   push, lastPush, lastInsert, fails>>

\* Layer 1 answered; layer 2 is read; connectCloudDB() is called if needed:
\* it returns at once when its flag is set, else mongoose.connect is awaited.
ProbeDone(t, hasNetwork, mongo) ==
    /\ tick[t].pc = "probe"
    /\ LET b0 == Probed(t, hasNetwork, mongo)
       IN  \E b \in (IF ~hasNetwork
                     THEN {Offline(b0)}
                     ELSE IF ~mongo
                     THEN {Layer2Down(b0)}
                     ELSE EnterSweep(b0)) : Commit(b)
    /\ UNCHANGED <<env, nextId, remote, push, lastPush, lastInsert>>

\* mongoose.connect(MONGO_URI) settled inside connectCloudDB.
ReconnectDone(t, ok) ==
    /\ tick[t].pc = "reconnect"
    /\ isConnected' = (isConnected \/ ok)
    /\ tick' = [tick EXCEPT ![t].pc = "wait"]
    /\ last' = NoEvent
    /\ UNCHANGED <<stable, ledgerOk, now, syncState, rows, sync_queue, nextId,
                   remote, calls, push, lastPush, lastInsert, fails>>

\* The one-second wait is over: layer 2 is read again.
WaitDone(t, mongo) ==
    /\ tick[t].pc = "wait"
    /\ LET b0 == Probed(t, TRUE, mongo)
       IN  \E b \in (IF ~mongo
                     THEN {MongoUnreachable(b0)}
                     ELSE EnterSweep(b0)) : Commit(b)
    /\ UNCHANGED <<env, nextId, remote, push, lastPush, lastInsert>>

\* The network probe of a drained entry's syncRecord answered.
DrainProbeDone(t, hasNetwork, mongo) ==
    /\ tick[t].pc = "dprobe"
    /\ \E r \in SyncRecordBody(syncState, rows, tick[t].cur.table_name,
                               tick[t].cur.record_id, hasNetwork, mongo) :
         LET b0 == [Probed(t, hasNetwork, mongo) EXCEPT !.ss = r.ss]
         IN  CASE r.kind = "call" ->
                    Commit([b0 EXCEPT !.tk.pc = "dpush",
                                      !.cs[<<"drain", t, "-">>] = NewCall(r.ops)])
               [] r.kind = "rejected" -> Commit(Retried(b0))
               [] OTHER -> Commit(Handled(b0, r.kind))
    /\ UNCHANGED <<env, nextId, remote, push, lastPush, lastInsert>>

\* ------------------------------------------------------- real-time push
\* A route handler calls syncRecord(table, id).catch(() => { }).
syncRecord(p, tb, id) ==
    /\ push[p].pc = "idle"
    /\ \A u \in PushIds : u < p => push[u].pc # "idle"
    /\ push' = [push EXCEPT ![p] = [pc |-> "probe", table |-> tb, id |-> id]]
    /\ last' = NoEvent
    /\ UNCHANGED <<env, syncState, rows, sync_queue, nextId, remote, calls,
                   tick, lastPush, lastInsert, fails>>

PushEnded(p, how) == [NoEvent EXCEPT !.p = p, !.pushEnd = how]

PushProbeDone(p, hasNetwork, mongo) ==
    /\ push[p].pc = "probe"
    /\ \E r \in SyncRecordBody(syncState, rows, push[p].table, push[p].id,
                               hasNetwork, mongo) :
         /\ syncState' = r.ss
         /\ IF r.kind = "call"
            THEN /\ push' = [push EXCEPT ![p].pc = "push"]
                 /\ calls' = [calls EXCEPT ![<<"rt", p, "-">>] = NewCall(r.ops)]
                 /\ last' = NoEvent
            ELSE /\ push' = [push EXCEPT ![p] = IdlePush]
                 /\ last' = PushEnded(p, r.kind)
                 /\ UNCHANGED calls
    /\ UNCHANGED <<env, rows, sync_queue, nextId, remote, tick, lastPush,
                   lastInsert, fails>>

\* ------------------------------------------------- bulkWrite at the server
\* The promise of caller c's bulkWrite settles: res is the count returned
\* (upsertedCount + modifiedCount), or Rejected.  (w: what the store wrote.)
Resolve(c, res, w) ==
    IF c[1] = "rt"
    THEN /\ push' = [push EXCEPT ![c[2]] = IdlePush]
         /\ last' = [PushEnded(c[2], IF res = Rejected THEN "failed" ELSE "pushed")
                        EXCEPT !.wrote = w]
         /\ calls' = [calls EXCEPT ![c] = NoCall]
         /\ UNCHANGED <<env, syncState, rows, sync_queue, nextId, tick,
                        lastInsert, fails>>
    ELSE LET b == [Bundle(c[2]) EXCEPT !.cs = [calls EXCEPT ![c] = NoCall],
                                       !.ev.wrote = w]
         IN  /\ \E b1 \in (IF c[1] = "sweep"
                           THEN GroupSettled(b, c[3], res)
                           ELSE {Handled(b, IF res = Rejected THEN "failed" ELSE "pushed")}) :
                   Commit(b1)
             /\ UNCHANGED <<env, nextId, push, lastInsert>>

Settle(c, call1, w) ==
    IF call1.todo = {} /\ call1.ins = {}
    THEN Resolve(c, call1.n, w)
    ELSE /\ calls' = [calls EXCEPT ![c] = call1]
         /\ last' = [NoEvent EXCEPT !.wrote = w]
         /\ UNCHANGED <<env, syncState, rows, sync_queue, nextId, tick, push,
                        lastInsert, fails>>

Applied(op) ==
    [lastPush EXCEPT ![<<op.coll, op.set.local_id, op.set.company_id>>] = op.set.ver]

\* The server evaluates the filter of one updateOne: a match is updated at
\* once; with no match the upsert goes on to insert.
ServerFind(c) ==
    /\ calls[c].active
    /\ \E op \in calls[c].todo :
         LET m == Matches(remote, op)
         IN  IF m # {}
             THEN /\ remote' = UpdateDoc(remote, FirstOf(m), op)
                  /\ lastPush' = Applied(op)
                  /\ Settle(c, [calls[c] EXCEPT !.todo = @ \ {op}, !.n = @ + 1],
                            "update")
             ELSE /\ UNCHANGED <<remote, lastPush>>
                  /\ Settle(c, [calls[c] EXCEPT !.todo = @ \ {op}, !.ins = @ \cup {op}],
                            "none")

\* The insert of an upsert that matched nothing: a unique index turns an
\* insert of a key that has appeared meanwhile into an update of that document.
ServerInsert(c) ==
    /\ calls[c].active
    /\ \E op \in calls[c].ins :
         LET k == SameKey(remote, op)
             dup == HasUniqueIndex(op.coll) /\ k # {}
         IN  /\ remote' = IF dup
                          THEN UpdateDoc(remote, FirstOf(k), op)
                          ELSE remote \cup {NewDoc(remote, op)}
             /\ lastPush' = Applied(op)
             /\ Settle(c, [calls[c] EXCEPT !.ins = @ \ {op}, !.n = @ + 1],
                       IF dup THEN "retry" ELSE "insert")

\* bulkWrite rejects (connection dropped, timeout): what is not yet written
\* is not written.
CallFail(c) ==
    /\ ~stable
    /\ calls[c].active
    /\ UNCHANGED <<remote, lastPush>>
    /\ Resolve(c, Rejected, "none")

\* ------------------------------------------------------------------- Next
TickStep ==
    \/ \E t \in TickIds : TickFire(t)
    \/ \E t \in TickIds, n \in isNetworkAvailable, m \in isMongoConnected :
          ProbeDone(t, n, m)
    \/ \E t \in TickIds, ok \in ConnectOutcomes : ReconnectDone(t, ok)
    \/ \E t \in TickIds, m \in isMongoConnected : WaitDone(t, m)

DrainStep ==
    \E t \in TickIds, n \in isNetworkAvailable, m \in isMongoConnected :
        DrainProbeDone(t, n, m)

ServerStep ==
    \/ \E c \in Callers : ServerFind(c)
    \/ \E c \in Callers : ServerInsert(c)
    \/ \E c \in Callers : CallFail(c)

PushStep ==
    \/ \E p \in PushIds, tb \in CallTables, id \in Ids : syncRecord(p, tb, id)
    \/ \E p \in PushIds, n \in isNetworkAvailable, m \in isMongoConnected :
          PushProbeDone(p, n, m)

Next ==
    \/ LedgerChange
    \/ Stabilize
    \/ ClockAdvance
    \/ \E tb \in DataTables, id \in Ids : WriteRow(tb, id)
    \/ \E tb \in ChildTables, id \in Ids : WriteChild(tb, id)
    \/ \E tb \in CallTables, id \in Ids, f \in EnqueueStatements : enqueueSync(tb, id, f)
    \/ PushStep
    \/ TickStep
    \/ DrainStep
    \/ ServerStep

Spec == Init /\ [][Next]_vars

\* The scheduler alone, against a changing network and remote store.
NextSweep == TickStep \/ ServerStep

SpecSweep == Init /\ [][NextSweep]_vars

\* The same with a local store that may stop answering.
NextFault == NextSweep \/ LedgerChange

SpecFault == Init /\ [][NextFault]_vars

\* The outbox: enqueues against sweeps that do not overlap (a sweep ends
\* before the next timer tick), with rows in the products table only.
QueueTables == {"products", "inventory"}

NoSweepRunning == \A u \in TickIds : tick[u].pc = "idle"

TickFireAlone(t) == NoSweepRunning /\ TickFire(t)

InitQueue == InitWith({"products"})

NextQueue ==
    \/ ClockAdvance
    \/ \E tb \in QueueTables, id \in Ids, f \in EnqueueStatements :
          enqueueSync(tb, id, f)
    \/ \E t \in TickIds : TickFireAlone(t)
    \/ \E t \in TickIds, n \in isNetworkAvailable, m \in isMongoConnected :
          ProbeDone(t, n, m)
    \/ \E t \in TickIds, ok \in ConnectOutcomes : ReconnectDone(t, ok)
    \/ \E t \in TickIds, m \in isMongoConnected : WaitDone(t, m)
    \/ DrainStep
    \/ ServerStep

SpecQueue == InitQueue /\ [][NextQueue]_vars

\* The same with timer ticks that fire while a sweep is still running.
NextOverlap ==
    \/ ClockAdvance
    \/ \E tb \in QueueTables, id \in Ids, f \in EnqueueStatements :
          enqueueSync(tb, id, f)
    \/ TickStep
    \/ DrainStep
    \/ ServerStep

SpecOverlap == InitQueue /\ [][NextOverlap]_vars

\* The remote store: local writes of product rows pushed by real-time pushes,
\* sweeps and drains that overlap.
NextRemote ==
    \/ \E id \in Ids : WriteRow("products", id)
    \/ \E id \in Ids, f \in EnqueueStatements : enqueueSync("products", id, f)
    \/ \E p \in PushIds, id \in Ids : syncRecord(p, "products", id)
    \/ \E p \in PushIds, n \in isNetworkAvailable, m \in isMongoConnected :
          PushProbeDone(p, n, m)
    \/ TickStep
    \/ DrainStep
    \/ ServerStep

SpecRemote == InitQueue /\ [][NextRemote]_vars

\* Recovery: local writes and real-time pushes of product rows, sweeps that
\* do not overlap, and outages that end for good at some point.  The timer
\* keeps firing, every probe, connect and wait of a tick resolves, and the
\* remote store works through every bulkWrite it has received.
NextLive ==
    \/ Stabilize
    \/ \E id \in Ids : WriteRow("products", id)
    \/ \E p \in PushIds, id \in Ids : syncRecord(p, "products", id)
    \/ \E p \in PushIds, n \in isNetworkAvailable, m \in isMongoConnected :
          PushProbeDone(p, n, m)
    \/ \E t \in TickIds : TickFireAlone(t)
    \/ \E t \in TickIds, n \in isNetworkAvailable, m \in isMongoConnected :
          ProbeDone(t, n, m)
    \/ \E t \in TickIds, ok \in ConnectOutcomes : ReconnectDone(t, ok)
    \/ \E t \in TickIds, m \in isMongoConnected : WaitDone(t, m)
    \/ ServerStep

FairLive ==
    /\ \A t \in TickIds :
          /\ WF_vars(TickFireAlone(t))
          /\ WF_vars(\E n \in isNetworkAvailable, m \in isMongoConnected : ProbeDone(t, n, m))
          /\ WF_vars(\E ok \in ConnectOutcomes : ReconnectDone(t, ok))
          /\ WF_vars(\E m \in isMongoConnected : WaitDone(t, m))
    /\ \A c \in Callers : WF_vars(ServerFind(c) \/ ServerInsert(c))

SpecLive == InitQueue /\ [][NextLive]_vars /\ FairLive

\* The backlog: the process has been offline (one tick has ended 'offline'),
\* n rows of products were enqueued meanwhile, one per second, of which the
\* rows above MaxId have since been deleted locally; connectivity is back for
\* good and sweeps do not overlap.
BacklogIds == 1..MaxBacklog

Backlog(n) == {Entry(i, "products", i, i - 1) : i \in 1..n}

InitBacklog ==
    /\ stable = TRUE
    /\ ledgerOk = TRUE
    /\ isConnected \in BOOLEAN
    /\ \E n \in 0..MaxBacklog :
          /\ now = n
          /\ sync_queue = Backlog(n)
          /\ nextId = n + 1
          /\ lastInsert = [p \in CallTables \X BacklogIds |->
                            IF p[1] = "products" /\ p[2] <= n THEN p[2] - 1
                            ELSE NullTime]
    /\ syncState = [status |-> "offline", lastSyncAt |-> NullTime,
                    lastSyncError |-> NULL, recordsSynced |-> 0,
                    company_id |-> NULL]
    /\ rows = [p \in {"products"} \X Ids |-> [ver |-> 0, child |-> 0, sync_status |-> "pending"]]
    /\ remote = {}
    /\ calls = [c \in Callers |-> NoCall]
    /\ tick = [t \in TickIds |-> IdleTick]
    /\ push = [p \in PushIds |-> IdlePush]
    /\ lastPush = [k \in Keys |-> NullTime]
    /\ fails = [p \in CallTables \X BacklogIds |-> 0]
    /\ last = NoEvent

NextBacklog ==
    \/ \E t \in TickIds : TickFireAlone(t)
    \/ \E t \in TickIds, n \in isNetworkAvailable, m \in isMongoConnected :
          ProbeDone(t, n, m)
    \/ \E t \in TickIds, ok \in ConnectOutcomes : ReconnectDone(t, ok)
    \/ \E t \in TickIds, m \in isMongoConnected : WaitDone(t, m)
    \/ DrainStep
    \/ \E c \in Callers : ServerFind(c)
    \/ \E c \in Callers : ServerInsert(c)

SpecBacklog == InitBacklog /\ [][NextBacklog]_vars

\* Snapshots: sales and their child rows written locally while sweeps and
\* real-time pushes of sales are in flight.
InitSnapshot == InitWith({"sales"})

NextSnapshot ==
    \/ \E id \in Ids : WriteRow("sales", id)
    \/ \E id \in Ids : WriteChild("sales", id)
    \/ \E p \in PushIds, id \in Ids : syncRecord(p, "sales", id)
    \/ \E p \in PushIds, n \in isNetworkAvailable, m \in isMongoConnected :
          PushProbeDone(p, n, m)
    \/ TickStep
    \/ ServerStep

SpecSnapshot == InitSnapshot /\ [][NextSnapshot]_vars

\* ================================================================ claims
PairEntries(p) == EntriesFor(sync_queue, p[1], p[2])

\* GET /status: errorCount, the entries with retry_count >= 5
Poisoned(q) == {e \in q : e.retry_count >= RetryCeiling}

Sweeping(t) == tick[t].pc \in {"fanout", "dprobe", "dpush"}

\* C1: the outbox holds at most one entry per (table_name, record_id), and
\* that entry is the one written by the latest INSERT for the pair (its
\* created_at is the most recent one).
C1_OneEntryPerPair ==
    \A p \in Pairs :
        /\ Cardinality(PairEntries(p)) <= 1
        /\ \A e \in PairEntries(p) : e.created_at = lastInsert[p]

\* C1 witness: a pair enqueued twice, a second apart, before any sweep: the
\* first entry is gone and the second one is there.
C1_Witness ==
    /\ nextId = 3
    /\ syncState.status = "idle"
    /\ \E e \in sync_queue : e.id = 2 /\ e.created_at = 1
    /\ Cardinality(sync_queue) = 1

\* C2: the remote store holds at most one document per (collection,
\* local_id, company_id), and that document carries the fields of the upsert
\* applied last for the key.
C2_OneDocumentPerKey ==
    \A k \in Keys :
        LET D == {d \in remote : Key(d) = k}
        IN  /\ Cardinality(D) <= 1
            /\ \A d \in D : d.ver = lastPush[k]
            /\ (lastPush[k] # NullTime => D # {})

\* C2 witness: two pushes of one row overlapped (both found no document); the
\* insert of the second met the document of the first and updated it, with a
\* later version of the row.
C2_Witness ==
    /\ last.wrote = "retry"
    /\ \E d \in remote : d.ver = 1
    /\ Cardinality(remote) = 1

\* C3 (as claimed): a drain attempt deletes its outbox entry, or sets the
\* row's sync_status to 'synced', only if the push of that attempt succeeded.
C3_SyncedOnlyAfterPush ==
    [][\A e \in sync_queue :
          LET pair == <<e.table_name, e.record_id>>
          IN  (/\ last'.att # "none"
               /\ last'.entry = e
               /\ \/ e \notin sync_queue'
                  \/ /\ pair \in DOMAIN rows
                     /\ rows[pair].sync_status = "pending"
                     /\ rows'[pair].sync_status = "synced")
              => last'.att = "pushed"]_vars

\* C4 (as claimed): when the push of a drained entry fails (upsert error:
\* "failed"; no connectivity: "skipped"), the entry stays in the outbox with
\* retry_count one higher and last_attempt set.
C4_FailureIsCounted ==
    [][\A e \in sync_queue :
          (last'.entry = e /\ last'.att \in {"failed", "skipped"})
              => \E x \in sync_queue' :
                    /\ x.id = e.id
                    /\ x.retry_count = e.retry_count + 1
                    /\ x.last_attempt = now]_vars

\* C5 (as claimed): an entry whose push failed in k consecutive drains is in
\* the outbox with retry_count = k; from k = 5 on it is no candidate of a
\* drain and is counted by the status query's errorCount.
C5_RetryCeiling ==
    \A p \in Pairs :
        fails[p] >= 1 =>
            \E e \in PairEntries(p) :
                /\ e.retry_count = fails[p]
                /\ (fails[p] >= RetryCeiling =>
                        e \notin Candidates(sync_queue) /\ e \in Poisoned(sync_queue))

\* C6: a tick whose network probe fails ends with status 'offline', whatever
\* the remote store's connection state; a tick whose recheck of the remote
\* connection fails ends with status 'error' and a lastSyncError.
C6_ConnectivityLayering ==
    [][\A t \in TickIds :
          /\ (tick[t].pc = "probe" /\ last'.t = t /\ ~last'.net)
                => (tick'[t].pc = "idle" /\ syncState'.status = "offline")
          /\ (tick[t].pc = "wait" /\ last'.t = t /\ ~last'.mongo)
                => /\ tick'[t].pc = "idle"
                   /\ syncState'.status = "error"
                   /\ syncState'.lastSyncError # NULL]_vars

\* C6 witness: a tick ended 'offline' although the remote store was connected.
C6_Witness ==
    last.end = "offline" /\ last.mongo /\ syncState.status = "offline"

\* C7 (as claimed): a tick that fired while status was 'syncing' launches no
\* fan-out while another sweep is running.
C7_NoSecondFanout ==
    [][\A t \in TickIds :
          (tick[t].firedSyncing /\ \E u \in TickIds \ {t} : Sweeping(u))
              => ~(last'.t = t /\ last'.launched)]_vars

\* C8 (as claimed): at most one sweep (fan-out plus drain) is in flight.
C8_OneSweepInFlight == Cardinality({t \in TickIds : Sweeping(t)}) <= 1

\* C9: the sweep stays in its fan-out while a bulkWrite of it is in flight;
\* when the fan-out has settled, with rejections or not, recordsSynced is the
\* sum of the fulfilled counts and status is 'synced'.
C9Count(g) == IF last.results[g] >= 0 THEN last.results[g] ELSE 0

C9_PartialFailureIsolated ==
    /\ \A t \in TickIds, g \in DataTables :
          calls[<<"sweep", t, g>>].active => tick[t].pc = "fanout"
    /\ last.settled =>
          /\ \A g \in Groups : last.results[g] # Pending
          /\ syncState.status = "synced"
          /\ syncState.recordsSynced =
                C9Count("sales") + C9Count("products") + C9Count("customers")
                    + C9Count("orders") + C9Count("inventory") + C9Count("purchases")
                    + C9Count("expenses") + C9Count("users") + C9Count("app_settings")

\* C9 witness: a fan-out settled with one function rejected and another one
\* fulfilled with a count.
C9_Witness ==
    /\ last.settled
    /\ \E g \in Groups : last.results[g] = Rejected
    /\ \E g \in Groups : last.results[g] > 0
    /\ syncState.recordsSynced > 0
    /\ syncState.status = "synced"

\* C10: an exception thrown inside runSync after status became 'syncing' is
\* caught: the tick ends with status 'error' and the exception's message.
C10_NoExceptionEscapes ==
    last.raised # NULL =>
        /\ last.end = "caught"
        /\ tick[last.t].pc = "idle"
        /\ syncState.status = "error"
        /\ syncState.lastSyncError = last.raised

\* C10 witness: the outbox read of the drain threw after the fan-out settled.
C10_Witness ==
    last.raised = LedgerMsg /\ last.settled /\ syncState.status = "error"

\* C11: enqueueSync never throws to its caller, whichever statement fails;
\* when only the UPDATE of the row's sync_status fails, the entry of the pair
\* written by this call is in the outbox.
C11_EnqueueNeverRaises ==
    last.enq # "none" =>
        /\ ~last.escaped
        /\ (last.enq = "update" =>
                \E e \in sync_queue :
                    /\ e.id = nextId - 1
                    /\ <<e.table_name, e.record_id>> = last.enqPair
                    /\ e.created_at = now)

\* C11 witness: a row already marked 'synced' by a drain is enqueued again,
\* the UPDATE of its sync_status fails, and the new entry is in the outbox
\* although the row still says 'synced'.
C11_Witness ==
    /\ last.enq = "update"
    /\ last.enqPair = <<"products", 1>>
    /\ rows[<<"products", 1>>].sync_status = "synced"
    /\ \E e \in sync_queue : e.id = 2 /\ e.record_id = 1 /\ e.table_name = "products"

\* C12 (as claimed): a syncRecord call ends without rejecting its promise:
\* skipped, failed and swallowed, nothing to push, or pushed.
C12_PushNeverRejects ==
    last.pushEnd # "none" => last.pushEnd \in {"skipped", "failed", "nopush", "pushed"}

\* The remote document of product row id is the mapping of the row as it is now.
Consistent(id) ==
    \E d \in remote :
        /\ d.coll = "products"
        /\ d.local_id = id
        /\ d.company_id = CompanyId
        /\ d.ver = MapRow("products", id, rows[<<"products", id>>]).ver

\* C13: once the network and the remote store stay reachable and upserts
\* succeed, and with the timer firing, every row ends up, after its last
\* modification, with a remote document equal to the mapping of its current
\* state, and stays so.
C13_EventuallyConsistent ==
    \A id \in Ids : [](stable => <>[]Consistent(id))

\* C13 witness: the row was modified, the outages ended for good, and a sweep
\* has just settled with the remote document at the row's current state.
C13_Witness ==
    /\ stable
    /\ rows[<<"products", 1>>].ver = MaxVer
    /\ Consistent(1)
    /\ last.settled
    /\ syncState.recordsSynced > 0

DrainPcs == {"dprobe", "dpush"}

\* C14: processQueue is called only in the step in which a tick's fan-out has
\* settled (no result pending) and status has been set to 'synced'; a tick in
\* its drain only goes on draining or ends, so it drains once; drain attempts
\* happen only inside a drain; a tick that ends at a probe or at the guard has
\* called no processQueue and changed no outbox entry.
C14_DrainOnlyAfterFanout ==
    [][/\ last'.drain =>
             /\ last'.settled
             /\ \A g \in Groups : last'.results[g] # Pending
             /\ tick[last'.t].pc \in {"probe", "wait", "fanout"}
             /\ (last'.raised = NULL => syncState'.status = "synced")
       /\ \A t \in TickIds :
             /\ (tick'[t].pc \in DrainPcs /\ tick[t].pc \notin DrainPcs)
                    => (last'.drain /\ last'.t = t)
             /\ tick[t].pc \in DrainPcs => tick'[t].pc \in DrainPcs \cup {"idle"}
       /\ last'.att # "none" => tick[last'.t].pc \in DrainPcs
       /\ last'.end \in {"offline", "mongo_error", "guard"} =>
             /\ ~last'.drain
             /\ last'.att = "none"
             /\ tick[last'.t].pc \in {"probe", "wait"}
             /\ sync_queue' = sync_queue]_vars

\* C14 witness: a fan-out has just settled, status is 'synced', and the tick
\* has started the drain on an outbox entry.
C14_Witness ==
    /\ last.drain
    /\ last.settled
    /\ syncState.status = "synced"
    /\ tick[last.t].pc = "dprobe"
    /\ tick[last.t].cur \in sync_queue

\* C15: no step of a tick before its drain (probes, guard, fan-out launch and
\* settlement) changes a row's sync_status; a row's sync_status becomes
\* 'synced' only in a drain attempt on an entry of that row or in a step of a
\* real-time push.
C15_SweepLeavesSyncStatus ==
    [][\A pr \in DOMAIN rows :
          /\ (\E t \in TickIds : last'.t = t /\ tick[t].pc \in {"probe", "wait", "fanout"})
                => rows'[pr].sync_status = rows[pr].sync_status
          /\ (rows[pr].sync_status # "synced" /\ rows'[pr].sync_status = "synced")
                => \/ /\ last'.att # "none"
                      /\ <<last'.entry.table_name, last'.entry.record_id>> = pr
                   \/ push' # push]_vars

\* C15 witness: a fan-out has settled having upserted the product row, the
\* remote document is there, and the row's sync_status is still 'pending'.
C15_Witness ==
    /\ last.settled
    /\ last.results["products"] > 0
    /\ Consistent(1)
    /\ rows[<<"products", 1>>].sync_status = "pending"

\* C16 (as claimed): every change of syncState.status is idle->syncing,
\* syncing->synced, syncing->offline, syncing->error, or a terminal state
\* (synced, offline, error) ->idle.
C16_StatusTransitions ==
    [][syncState'.status # syncState.status
          => <<syncState.status, syncState'.status>> \in
                {<<"idle", "syncing">>, <<"syncing", "synced">>,
                 <<"syncing", "offline">>, <<"syncing", "error">>,
                 <<"synced", "idle">>, <<"offline", "idle">>, <<"error", "idle">>}]_vars

\* C17: whenever status is 'synced', lastSyncError is null and lastSyncAt is
\* set; the step that settles a fan-out without an exception leaves status
\* 'synced', lastSyncAt = now, lastSyncError null and recordsSynced the total.
C17_SyncedHasNoError ==
    /\ syncState.status = "synced" =>
          (syncState.lastSyncError = NULL /\ syncState.lastSyncAt # NullTime)
    /\ (last.settled /\ last.raised = NULL) =>
          /\ syncState.status = "synced"
          /\ syncState.lastSyncAt = now
          /\ syncState.lastSyncError = NULL
          /\ syncState.recordsSynced = SumFulfilled(last.results, Groups)

\* C17 witness: a sweep has settled while another tick, which found the remote
\* store down, is still waiting to recheck it.
C17_Witness ==
    /\ last.settled
    /\ syncState.status = "synced"
    /\ syncState.lastSyncError = NULL
    /\ \E t \in TickIds : tick[t].pc = "wait"

\* C18: a tick that finds layer 2 down calls connectCloudDB once and changes
\* no status; 'error' for layer 2 is set only by a tick that has made that
\* call, has waited, and has read the connection state again as down; if the
\* recheck finds the connection up the tick goes on to the guard and the sweep.
C18_ReconnectOnceThenRecheck ==
    [][\A t \in TickIds :
          /\ tick'[t].reconnects <= 1
          /\ (last'.t = t /\ last'.end = "mongo_error")
                => (tick[t].pc = "wait" /\ tick[t].reconnects = 1 /\ ~last'.mongo)
          /\ (last'.t = t /\ tick[t].pc = "probe" /\ last'.net /\ ~last'.mongo)
                => /\ tick'[t].pc \in {"reconnect", "wait"}
                   /\ tick'[t].reconnects = 1
                   /\ syncState' = syncState
          /\ (tick[t].pc = "reconnect" /\ tick'[t] # tick[t])
                => (tick'[t].pc = "wait" /\ syncState' = syncState)
          /\ (last'.t = t /\ tick[t].pc = "wait" /\ last'.mongo)
                => (last'.end = "guard" \/ last'.launched \/ last'.raised # NULL)]_vars

\* C18 witness: a tick has ended 'error' after its reconnect attempt failed
\* and the recheck found the store still disconnected.
C18_Witness ==
    /\ last.end = "mongo_error"
    /\ ~last.mongo
    /\ ~isConnected
    /\ syncState.status = "error"
    /\ syncState.lastSyncError = MongoMsg

StatusView(ss) == <<ss.status, ss.lastSyncAt, ss.lastSyncError, ss.recordsSynced>>

\* C19 (as claimed): while a sweep is in its fan-out and status is 'syncing',
\* no step of a tick that fired during it changes status, lastSyncAt,
\* lastSyncError or recordsSynced.
C19_LaterTickLeavesState ==
    [][\A t \in TickIds :
          (/\ tick[t].firedSyncing
           /\ last'.t = t
           /\ syncState.status = "syncing"
           /\ \E u \in TickIds \ {t} : tick[u].pc = "fanout")
              => StatusView(syncState') = StatusView(syncState)]_vars

\* C20: no step of a real-time push changes status, lastSyncAt, lastSyncError
\* or recordsSynced; a push that is skipped, fails or rejects leaves the
\* outbox and every row's sync_status as they were.
C20_PushFrame ==
    [][push' # push =>
          /\ StatusView(syncState') = StatusView(syncState)
          /\ last'.pushEnd \in {"skipped", "failed", "rejected"} =>
                /\ sync_queue' = sync_queue
                /\ \A pr \in DOMAIN rows :
                      rows'[pr].sync_status = rows[pr].sync_status]_vars

\* C20 witness: a real-time push of a row with an outbox entry has just
\* failed at the remote store; the entry is there and the row is 'pending'.
C20_Witness ==
    /\ last.pushEnd = "failed"
    /\ last.p # 0
    /\ \E e \in sync_queue : e.table_name = "products" /\ e.record_id = 1
    /\ rows[<<"products", 1>>].sync_status = "pending"
    /\ syncState.company_id = CompanyId

\* C21 (as claimed): after an enqueueSync call on a trackable table with an
\* existing row whose DELETE and INSERT ran, the outbox holds an entry for the
\* pair with operation 'upsert' and retry_count 0, and the row's sync_status
\* is 'pending'.
C21_EnqueueLeavesPending ==
    \A tb \in TRACKABLE_TABLES, id \in Ids :
        (/\ last.enq \in {"ok", "update"}
         /\ last.enqPair = <<tb, id>>
         /\ <<tb, id>> \in DOMAIN rows)
            => /\ \E e \in PairEntries(<<tb, id>>) :
                     e.operation = "upsert" /\ e.retry_count = 0
               /\ rows[<<tb, id>>].sync_status = "pending"

\* C22 (as claimed): every outbox entry names one of the six trackable
\* tables; an enqueueSync call for any other table adds no entry.
C22_OutboxOnlyTrackable ==
    \A e \in sync_queue : e.table_name \in TRACKABLE_TABLES

\* The entries a drain has selected, in the order of its loop.
Selected(t) == <<tick[t].cur>> \o tick[t].pending

\* C23: the entries a drain selects are at most BatchSize entries of the
\* outbox, each with retry_count < 5, in non-decreasing created_at order; no
\* entry left out is older than a selected one, and entries are left out only
\* when BatchSize are selected.  The loop attempts them in that order.
C23_DrainSelection ==
    /\ \A t \in TickIds :
          (last.drain /\ last.t = t /\ tick[t].pc = "dprobe") =>
              LET s == Selected(t)
                  chosen == {s[i] : i \in 1..Len(s)}
              IN  /\ Len(s) <= BatchSize
                  /\ Cardinality(chosen) = Len(s)
                  /\ chosen \subseteq sync_queue
                  /\ \A e \in chosen : e.retry_count < RetryCeiling
                  /\ \A i, j \in 1..Len(s) : i < j => s[i].created_at <= s[j].created_at
                  /\ \A e \in Candidates(sync_queue) \ chosen :
                        /\ Len(s) = BatchSize
                        /\ \A x \in chosen : x.created_at <= e.created_at
    /\ \A t \in TickIds :
          (last.att # "none" /\ last.t = t) =>
              /\ \A i \in 1..Len(tick[t].pending) :
                    last.entry.created_at <= tick[t].pending[i].created_at
              /\ tick[t].pc = "dprobe" =>
                    last.entry.created_at <= tick[t].cur.created_at

\* A drain has selected BatchSize entries and left a newer one out.
C23_Witness ==
    \E t \in TickIds :
        /\ last.drain /\ last.t = t /\ tick[t].pc = "dprobe"
        /\ Len(Selected(t)) = BatchSize
        /\ Candidates(sync_queue) \ {Selected(t)[i] : i \in 1..BatchSize} # {}

\* C24 (as claimed): when a sweep that ran with connectivity restored has
\* completed, no outbox entry with retry_count < 5 remains, whatever the size
\* of the backlog it found.
C24_BacklogFlushedInOnePass ==
    last.end = "completed" => Candidates(sync_queue) = {}

\* The company ids carried by the bulkWrite operations in flight and by the
\* documents of the remote store.
WrittenTenants(cs, store) ==
    UNION {{op.filter.company_id, op.set.company_id} :
              op \in UNION {cs[c].todo \cup cs[c].ins : c \in Callers}}
        \cup {d.company_id : d \in store}

\* C25: a tick in which getCompanyId throws ends with status 'error' and the
\* exception's message and leaves syncState.company_id unset; every tick that
\* passes the reentrancy guard with company_id unset calls getCompanyId again
\* (it throws again or the id is kept); an id once kept never changes, and
\* every remote write carries it.
C25_TenantResolution ==
    [][/\ last'.raised = TenantMsg =>
              /\ last'.end = "caught"
              /\ tick'[last'.t].pc = "idle"
              /\ syncState'.status = "error"
              /\ syncState'.lastSyncError = TenantMsg
              /\ syncState.company_id = NULL
              /\ syncState'.company_id = NULL
       /\ \A t \in TickIds :
              (/\ last'.t = t /\ last'.net /\ last'.mongo
               /\ tick[t].pc \in {"probe", "wait"}
               /\ ~Reentrant(syncState)
               /\ syncState.company_id = NULL)
                  => \/ last'.raised = TenantMsg
                     \/ last'.launched /\ syncState'.company_id # NULL
       /\ syncState.company_id # NULL => syncState'.company_id = syncState.company_id
       /\ WrittenTenants(calls', remote') \subseteq {syncState'.company_id} \ {NULL}]_vars

\* A tick has launched its fan-out with the id it resolved, after an earlier
\* tick ended on a failed resolution.
C25_Witness ==
    /\ last.launched
    /\ syncState.lastSyncError = TenantMsg
    /\ syncState.company_id = CompanyId
    /\ \E c \in Callers : calls[c].active

\* The bulkWrite operations in flight.
InFlight(cs) == UNION {cs[c].todo \cup cs[c].ins : c \in Callers}

\* C26: every operation handed to bulkWrite by a sweep or a real-time push
\* carries the parent row and the child rows as the ledger holds them at that
\* instant, and every document the remote store writes is the content of one
\* such operation: no document mixes a parent and children of two instants.
C26_OneSnapshotPerDocument ==
    [][/\ \A op \in InFlight(calls') \ InFlight(calls) :
             /\ <<op.coll, op.set.local_id>> \in DOMAIN rows
             /\ op.set.ver = rows[<<op.coll, op.set.local_id>>].ver
             /\ op.set.child = rows[<<op.coll, op.set.local_id>>].child
       /\ \A d \in remote' \ remote :
             \E op \in InFlight(calls) :
                 /\ op.coll = d.coll /\ op.set.local_id = d.local_id
                 /\ op.set.ver = d.ver /\ op.set.child = d.child]_vars

\* The remote store holds a sale written with its first version of parent and
\* children while the ledger has moved on to the next version of both.
C26_Witness ==
    /\ \E d \in remote : d.coll = "sales" /\ d.local_id = 1 /\ d.ver = 0 /\ d.child = 0
    /\ rows[<<"sales", 1>>].ver = 1
    /\ rows[<<"sales", 1>>].child = 1
    /\ \E op \in InFlight(calls) : op.set.ver = 1 /\ op.set.child = 1

\* C27 (as claimed): when a drain attempt on an entry ends while the outbox
\* holds a newer entry for the same (table_name, record_id), enqueued during
\* the attempt, the outbox still holds an entry for the pair afterwards and
\* the row's sync_status is still 'pending'.
C27_ReenqueueNotLost ==
    [][\A x \in sync_queue :
          LET pair == <<x.table_name, x.record_id>>
          IN  (/\ pair \in DOMAIN rows
               /\ last'.att # "none"
               /\ last'.entry.table_name = x.table_name
               /\ last'.entry.record_id = x.record_id
               /\ last'.entry.id < x.id)
                  => /\ EntriesFor(sync_queue', x.table_name, x.record_id) # {}
                     /\ rows'[pair].sync_status = "pending"]_vars

C29_ReconnectStartsAttempt ==
    [][\A t \in TickIds :
          (/\ tick[t].pc = "probe"
           /\ last'.t = t
           /\ last'.net
           /\ ~last'.mongo)
              => tick'[t].pc = "reconnect"]_vars

\* C30 (as claimed): the version of a row held by the remote store never goes
\* down: a remote write does not replace a document by one built from an
\* older version of the parent row or of its child rows.
C30_RemoteNeverRegresses ==
    [][\A d \in remote : \A e \in remote' :
          (d.coll = e.coll /\ d.local_id = e.local_id /\ d.company_id = e.company_id)
              => e.ver >= d.ver /\ e.child >= d.child]_vars

====
